---- MODULE Spec2Model ----
(***************************************************************************)
(* Model of pyro_eval.engine_evaluation.EngineEvaluator: the sequence      *)
(* runner, the dataset loop with resume / checkpoint / cleanup, and the    *)
(* image-level and sequence-level metrics.                                 *)
(*                                                                         *)
(* Modelling conventions                                                   *)
(*  - sequence ids are opaque keys (small naturals standing for the        *)
(*    non-numeric string ids); a dataset never holds the same id twice.    *)
(*  - durations are naturals; a pandas Timedelta is [k |-> "td"], its CSV  *)
(*    text is [k |-> "str"], a missing one is "nat" (memory), "empty"      *)
(*    (file) or "nan" (loaded back).                                       *)
(*  - DataFrame.to_csv writes the whole file in one step.                  *)
(*  - a mean is kept as the exact fraction [num, den].                     *)
(*  - every sequence has at least one frame; a restart uses the same       *)
(*    run_id, dataset, save flag and model path.                           *)
(*  - the engine aggregates its window by the maximum (spec 4.1 leaves the *)
(*    rule open); no property below depends on the rule except through    *)
(*    the window being empty or not.                                       *)
(***************************************************************************)
EXTENDS Integers, Sequences, FiniteSets, TLC

\* ---- bounds of the explored inputs --------------------------------------
MaxSeqs == 2
MaxFrames == 2
MaxRows == 3
MaxDelta == 1

\* ---- configuration and program constants --------------------------------
nb_consecutive_frames == 2
conf_thresh == 1
CheckpointInterval == 50

\* a missing duration (pandas NaT / None), and the absent average
NaT == -1
NoDelay == [num |-> 0, den |-> 0]

\* ---- generic helpers -----------------------------------------------------
RECURSIVE SumSeq(_)
SumSeq(s) == IF s = <<>> THEN 0 ELSE Head(s) + SumSeq(Tail(s))

RECURSIVE Filter(_, _)
\* rows of s whose index satisfies keep (a boolean mask, as df[mask])
Filter(s, keep) ==
    IF s = <<>> THEN <<>>
    ELSE (IF keep[1] THEN <<Head(s)>> ELSE <<>>)
         \o Filter(Tail(s), [i \in 1..(Len(s) - 1) |-> keep[i + 1]])

Range(s) == {s[i] : i \in DOMAIN s}

RECURSIVE SortedSeq(_)
\* the elements of a finite set of integers in increasing order
SortedSeq(S) ==
    IF S = {} THEN <<>>
    ELSE LET m == CHOOSE x \in S : \A y \in S : x <= y
         IN <<m>> \o SortedSeq(S \ {m})

IsPrefix(s, t) == Len(s) <= Len(t) /\ SubSeq(t, 1, Len(s)) = s

\* ---- the dataset (input of the evaluator) --------------------------------
Td(n) == [k |-> "td", v |-> n]

\* raw frame scores: at the threshold and above it
Scores == {conf_thresh, conf_thresh + 1}

\* a sequence of n frames, frame i taken i - 1 time units after the first
MakeSequence(id, n, score) ==
    [sequence_id |-> id, label |-> (id % 2 = 1),
     images |-> [i \in 1..n |->
                   [score |-> score, timedelta |-> Td(i - 1),
                    label |-> (id % 2 = 1)]]]

SmallSequences(id) ==
    {MakeSequence(id, n, sc) : n \in 1..MaxFrames, sc \in Scores}

SmallDatasets ==
    UNION {{ds \in [1..n -> UNION {SmallSequences(i) : i \in 1..n}] :
                \A i \in 1..n : ds[i].sequence_id = i} : n \in 1..MaxSeqs}

\* sequences long enough for the table to reach the checkpoint interval
HalfInterval == CheckpointInterval \div 2

LongSequence(id, n) ==
    [sequence_id |-> id, label |-> TRUE,
     images |-> [i \in 1..n |->
                   [score |-> conf_thresh + (i % 2), timedelta |-> Td(i - 1),
                    label |-> TRUE]]]

\* two long sequences followed by a short one
LongDatasets ==
    {<<LongSequence(1, a), LongSequence(2, b),
       MakeSequence(3, MaxFrames, conf_thresh + 1)>> :
        a \in {HalfInterval, HalfInterval + 1},
        b \in {HalfInterval, HalfInterval + 1}}

Datasets == SmallDatasets \cup LongDatasets

\* ---- the engine's alert state (pyroengine.Engine, per spec 4.1) ----------
ResetStates == [last_predictions |-> <<>>, ongoing |-> FALSE]

\* deque(maxlen = nb_consecutive_frames).append
Push(w, x) ==
    IF Len(w) >= nb_consecutive_frames THEN Tail(w) \o <<x>> ELSE Append(w, x)

MaxOf(w) == CHOOSE m \in Range(w) : \A x \in Range(w) : x <= m

\* Engine.predict: push the raw score, aggregate the window, update ongoing
engine_predict(states, score) ==
    LET w == Push(states.last_predictions, score)
        conf == MaxOf(w)
    IN [confidence |-> conf,
        states |-> [last_predictions |-> w, ongoing |-> conf > conf_thresh]]

\* ---- prediction records and the CSV file ---------------------------------
PredictionGE(confidence) == confidence >= conf_thresh

\* bool(confidence > self.engine.conf_thresh)
Prediction(confidence) == confidence > conf_thresh

ResultRow(sequence, i, confidence) ==
    [sequence_id |-> sequence.sequence_id,
     image |-> <<sequence.sequence_id, i>>,
     sequence_label |-> sequence.label,
     image_label |-> sequence.images[i].label,
     prediction |-> Prediction(confidence),
     confidence |-> confidence,
     timedelta |-> sequence.images[i].timedelta]

BoolText(b) == IF b THEN "True" ELSE "False"
ParseBool(t) == t = "True"

TimedeltaText(t) ==
    IF t.k \in {"td", "str"} THEN [k |-> "str", v |-> t.v]
    ELSE [k |-> "empty", v |-> 0]

ParseField(t) == IF t.k = "empty" THEN [k |-> "nan", v |-> 0] ELSE t

ToCsvRow(r) ==
    [sequence_id |-> r.sequence_id, image |-> r.image,
     sequence_label |-> BoolText(r.sequence_label),
     image_label |-> BoolText(r.image_label),
     prediction |-> BoolText(r.prediction),
     confidence |-> r.confidence,
     timedelta |-> TimedeltaText(r.timedelta)]

ReadCsvRow(t) ==
    [sequence_id |-> t.sequence_id, image |-> t.image,
     sequence_label |-> ParseBool(t.sequence_label),
     image_label |-> ParseBool(t.image_label),
     prediction |-> ParseBool(t.prediction),
     confidence |-> t.confidence,
     timedelta |-> ParseField(t.timedelta)]

\* DataFrame.to_csv(index=False) / pd.read_csv
to_csv(df) == [i \in DOMAIN df |-> ToCsvRow(df[i])]
read_csv(file) == [i \in DOMAIN file |-> ReadCsvRow(file[i])]

\* pd.to_timedelta(x, errors="coerce")
to_timedelta(t) == IF t.k \in {"td", "str"} THEN t.v ELSE NaT

SequenceIds(df) == {df[i].sequence_id : i \in DOMAIN df}

\* ---- metrics -------------------------------------------------------------
\* a rate, 0 when its denominator is 0 (zero_division=0)
Rate(n, d) == IF d = 0 THEN [num |-> 0, den |-> 1] ELSE [num |-> n, den |-> d]

\* one cell of confusion_matrix(y_true, y_pred, labels=[False, True])
Cell(df, truth, predicted) ==
    Cardinality({i \in DOMAIN df :
        df[i].image_label = truth /\ df[i].prediction = predicted})

compute_image_level_metrics(df) ==
    LET tp == Cell(df, TRUE, TRUE)
        fp == Cell(df, FALSE, TRUE)
        fn == Cell(df, TRUE, FALSE)
        tn == Cell(df, FALSE, FALSE)
    IN [precision |-> Rate(tp, tp + fp), recall |-> Rate(tp, tp + fn),
        f1 |-> Rate(2 * tp, 2 * tp + fp + fn),
        tn |-> tn, fp |-> fp, fn |-> fn, tp |-> tp]

\* utils.compute_metrics
compute_metrics(false_positives, true_positives, false_negatives) ==
    [precision |-> Rate(true_positives, true_positives + false_positives),
     recall |-> Rate(true_positives, true_positives + false_negatives),
     f1 |-> Rate(2 * true_positives,
                 2 * true_positives + false_positives + false_negatives)]

\* the rows of one groupby("sequence_id") group, in table order
Group(df, sequence_id) ==
    Filter(df, [i \in DOMAIN df |-> df[i].sequence_id = sequence_id])

\* Series.min(): the smallest value that is not NaT, NaT when there is none
MinSkipNa(s) ==
    LET vals == Range(s) \ {NaT}
    IN IF vals = {} THEN NaT ELSE CHOOSE m \in vals : \A x \in vals : m <= x

FirstValue(s) == s[1]

\* np.min(detection_timedeltas)
DetectionMin(detection_timedeltas) == MinSkipNa(detection_timedeltas)

\* one entry of sequence_metrics
SequenceMetric(df, sequence_id) ==
    LET group == Group(df, sequence_id)
        positives == Filter(group, [i \in DOMAIN group |-> group[i].prediction])
        detection_timedeltas ==
            [i \in DOMAIN positives |-> to_timedelta(positives[i].timedelta)]
    IN [sequence_id |-> sequence_id,
        label |-> group[1].sequence_label,
        has_detection |-> \E i \in DOMAIN group : group[i].prediction,
        detection_delay |->
            IF detection_timedeltas # <<>>
            THEN DetectionMin(detection_timedeltas) ELSE NaT]

IsFnWrong(m) == m.label /\ m.has_detection

\* the four row filters on sequence_df
IsTp(m) == m.label /\ m.has_detection
IsFn(m) == m.label /\ ~m.has_detection
IsFp(m) == ~m.label /\ m.has_detection
IsTn(m) == ~m.label /\ ~m.has_detection

\* the rows whose delay enters avg_detection_delay
DelayRow(m) == IsTp(m)

\* <bucket>["sequence_id"].to_list()
IdList(rows) == [i \in DOMAIN rows |-> rows[i].sequence_id]

compute_sequence_level_metrics(df) ==
    LET ids == SortedSeq(SequenceIds(df))
        sequence_df == [i \in DOMAIN ids |-> SequenceMetric(df, ids[i])]
        tp == IdList(Filter(sequence_df,
                  [i \in DOMAIN sequence_df |-> IsTp(sequence_df[i])]))
        fn == IdList(Filter(sequence_df,
                  [i \in DOMAIN sequence_df |-> IsFn(sequence_df[i])]))
        fp == IdList(Filter(sequence_df,
                  [i \in DOMAIN sequence_df |-> IsFp(sequence_df[i])]))
        tn == IdList(Filter(sequence_df,
                  [i \in DOMAIN sequence_df |-> IsTn(sequence_df[i])]))
        tp_rows == Filter(sequence_df,
                          [i \in DOMAIN sequence_df |-> DelayRow(sequence_df[i])])
        delays == Filter([i \in DOMAIN tp_rows |-> tp_rows[i].detection_delay],
                         [i \in DOMAIN tp_rows |-> tp_rows[i].detection_delay # NaT])
        rates == compute_metrics(Len(fp), Len(tp), Len(fn))
    IN [precision |-> rates.precision, recall |-> rates.recall, f1 |-> rates.f1,
        tp |-> Len(tp), fp |-> Len(fp), fn |-> Len(fn), tn |-> Len(tn),
        avg_detection_delay |->
            IF delays # <<>> THEN [num |-> SumSeq(delays), den |-> Len(delays)]
            ELSE NoDelay,
        predictions |-> [tp |-> tp, fn |-> fn, fp |-> fp, tn |-> tn]]

\* ---- evaluator state -----------------------------------------------------
VARIABLES
    dataset,           \* self.dataset
    save,              \* self.save
    resume,            \* self.resume
    needs_deletion,    \* self.needs_deletion
    model_file,        \* the exported temporary .onnx file exists
    engine_states,     \* self.engine._states["-1"]
    predictions_df,    \* self.predictions_df
    sequence_results,  \* the runner's local table
    results_csv,       \* the file self.predictions_csv
    seq_idx,           \* position of the dataset loop
    pc,                \* "ready", "loop", "seq", "done", "evaluated", "failed"
    raised,            \* the exception leaving run_engine_dataset
    cleanup,           \* what os.remove did on exit: "none", "ok", "failed"
    metrics,           \* self.metrics, <<>> before it is computed
    loaded,            \* history: the table the run started with
    calls,             \* history: ids the runner was invoked with in this run
    last_run,          \* history: file and metrics of the run that just ended
    prev_run           \* history: last_run of the run before the current one

vars == <<dataset, save, resume, needs_deletion, model_file, engine_states,
          predictions_df, sequence_results, results_csv, seq_idx, pc, raised,
          cleanup, metrics, loaded, calls, last_run, prev_run>>

config == <<dataset, save, needs_deletion>>

NoCsv == [exists |-> FALSE, rows |-> <<>>]
Written(df) == [exists |-> TRUE, rows |-> to_csv(df)]

Init ==
    /\ dataset \in Datasets
    /\ save \in BOOLEAN
    /\ resume \in BOOLEAN
    /\ needs_deletion \in BOOLEAN
    /\ model_file = needs_deletion
    /\ engine_states = ResetStates
    /\ predictions_df = <<>>
    /\ sequence_results = <<>>
    /\ results_csv = NoCsv
    /\ seq_idx = 1
    /\ pc = "ready"
    /\ raised = "none"
    /\ cleanup = "none"
    /\ metrics = <<>>
    /\ loaded = <<>>
    /\ calls = <<>>
    /\ last_run = <<>>
    /\ prev_run = <<>>

\* __init__ of a new evaluator on the same run_id (a restarted process)
NewEvaluator ==
    /\ pc \in {"evaluated", "failed"}
    /\ \E r \in BOOLEAN : resume' = r
    /\ model_file' = needs_deletion
    /\ engine_states' = ResetStates
    /\ predictions_df' = <<>>
    /\ sequence_results' = <<>>
    /\ seq_idx' = 1
    /\ pc' = "ready"
    /\ raised' = "none"
    /\ cleanup' = "none"
    /\ metrics' = <<>>
    /\ loaded' = <<>>
    /\ calls' = <<>>
    /\ UNCHANGED <<config, results_csv, last_run, prev_run>>

\* run_engine_dataset up to the loop: load the previous predictions or start empty
StartRun ==
    /\ pc \in {"ready", "evaluated", "failed"}
    /\ predictions_df' = IF save /\ results_csv.exists /\ resume
                         THEN read_csv(results_csv.rows) ELSE <<>>
    /\ loaded' = predictions_df'
    /\ sequence_results' = <<>>
    /\ seq_idx' = 1
    /\ pc' = "loop"
    /\ raised' = "none"
    /\ cleanup' = "none"
    /\ metrics' = <<>>
    /\ calls' = <<>>
    /\ prev_run' = last_run
    /\ last_run' = <<>>
    /\ UNCHANGED <<config, resume, model_file, engine_states, results_csv>>

NeverSkip(df, sequence_id) == FALSE

\* resume and sequence_id in set(predictions_df["sequence_id"])
SkipSequence(df, sequence_id) == resume /\ sequence_id \in SequenceIds(df)

LoopSkip ==
    /\ pc = "loop"
    /\ seq_idx <= Len(dataset)
    /\ SkipSequence(predictions_df, dataset[seq_idx].sequence_id)
    /\ seq_idx' = seq_idx + 1
    /\ UNCHANGED <<config, resume, model_file, engine_states, predictions_df,
                   sequence_results, results_csv, pc, raised, cleanup, metrics,
                   loaded, calls, last_run, prev_run>>

\* run_engine_sequence is entered: an empty local table
BeginSequence ==
    /\ pc = "loop"
    /\ seq_idx <= Len(dataset)
    /\ ~SkipSequence(predictions_df, dataset[seq_idx].sequence_id)
    /\ sequence_results' = <<>>
    /\ calls' = Append(calls, dataset[seq_idx].sequence_id)
    /\ pc' = "seq"
    /\ UNCHANGED <<config, resume, model_file, engine_states, predictions_df,
                   results_csv, seq_idx, raised, cleanup, metrics, loaded,
                   last_run, prev_run>>

\* one iteration of the frame loop: load, predict, add the row
PredictFrame ==
    /\ pc = "seq"
    /\ Len(sequence_results) < Len(dataset[seq_idx].images)
    /\ LET sequence == dataset[seq_idx]
           i == Len(sequence_results) + 1
           p == engine_predict(engine_states, sequence.images[i].score)
       IN /\ engine_states' = p.states
          /\ sequence_results' =
                 Append(sequence_results, ResultRow(sequence, i, p.confidence))
    /\ UNCHANGED <<config, resume, model_file, predictions_df, results_csv,
                   seq_idx, pc, raised, cleanup, metrics, loaded, calls,
                   last_run, prev_run>>

\* what os.remove(self.run_model_path) can do
RemoveResults == IF model_file THEN {"ok", "failed"} ELSE {"failed"}

PropagateCleanupError(primary, cleanup_result) ==
    IF cleanup_result = "failed" THEN "cleanup" ELSE primary

\* the exception that leaves the finally block (the bare except swallows
\* the one of os.remove)
Propagated(primary, cleanup_result) == primary

\* the finally block
Finally(result) ==
    IF needs_deletion
    THEN /\ cleanup' = result
         /\ model_file' = (model_file /\ result # "ok")
    ELSE /\ cleanup' = "none"
         /\ model_file' = model_file

\* image.load() or engine.predict() raises: nothing catches it before the
\* finally block of run_engine_dataset, and the exception leaves the run
FrameRaises ==
    /\ pc = "seq"
    /\ Len(sequence_results) < Len(dataset[seq_idx].images)
    /\ \E result \in RemoveResults :
          /\ Finally(result)
          /\ raised' = Propagated("frame", cleanup')
    /\ sequence_results' = <<>>
    /\ pc' = "failed"
    /\ last_run' = <<>>
    /\ UNCHANGED <<config, resume, engine_states, predictions_df, results_csv,
                   seq_idx, metrics, loaded, calls, prev_run>>

AppendAllButLast(df, results) ==
    df \o SubSeq(results, 1, Len(results) - 1)

\* pd.concat([self.predictions_df, sequence_results])
AppendResults(df, results) == df \o results

\* if self.save and len(self.predictions_df) % 50 == 0: to_csv
Checkpoint(file, df) ==
    IF save /\ Len(df) % CheckpointInterval = 0 THEN Written(df) ELSE file

\* the frame loop is over: reset the engine, return; the dataset loop
\* appends the rows and checkpoints
EndSequence ==
    /\ pc = "seq"
    /\ Len(sequence_results) = Len(dataset[seq_idx].images)
    /\ engine_states' = ResetStates
    /\ predictions_df' = AppendResults(predictions_df, sequence_results)
    /\ results_csv' = Checkpoint(results_csv, predictions_df')
    /\ sequence_results' = <<>>
    /\ seq_idx' = seq_idx + 1
    /\ pc' = "loop"
    /\ UNCHANGED <<config, resume, model_file, raised, cleanup, metrics,
                   loaded, calls, last_run, prev_run>>

\* the dataset is exhausted: finally block, then the final to_csv
LoopExit ==
    /\ pc = "loop"
    /\ seq_idx > Len(dataset)
    /\ \E result \in RemoveResults :
          /\ Finally(result)
          /\ raised' = Propagated("none", cleanup')
    /\ IF raised' = "none"
       THEN /\ results_csv' = IF save THEN Written(predictions_df) ELSE results_csv
            /\ pc' = "done"
            /\ last_run' = last_run
       ELSE /\ results_csv' = results_csv
            /\ pc' = "failed"
            /\ last_run' = <<>>
    /\ UNCHANGED <<config, resume, engine_states, predictions_df,
                   sequence_results, seq_idx, metrics, loaded, calls, prev_run>>

\* evaluate() after run_engine_dataset: both metric snapshots
\* (sequence_df["label"] is a KeyError on an empty table)
ComputeMetrics ==
    /\ pc = "done"
    /\ predictions_df # <<>>
    /\ metrics' = <<[image_metrics |-> compute_image_level_metrics(predictions_df),
                     sequence_metrics |->
                         compute_sequence_level_metrics(predictions_df)]>>
    /\ last_run' = IF save
                   THEN <<[csv |-> results_csv.rows, metrics |-> metrics'[1]]>>
                   ELSE <<>>
    /\ pc' = "evaluated"
    /\ UNCHANGED <<config, resume, model_file, engine_states, predictions_df,
                   sequence_results, results_csv, seq_idx, raised, cleanup,
                   loaded, calls, prev_run>>

Next ==
    \/ NewEvaluator
    \/ StartRun
    \/ LoopSkip
    \/ BeginSequence
    \/ PredictFrame
    \/ FrameRaises
    \/ EndSequence
    \/ LoopExit
    \/ ComputeMetrics

Spec == Init /\ [][Next]_vars

\* ---- the metrics on arbitrary tables ------------------------------------
\* Tables of at most MaxRows rows as the dataset loop builds them: rows of a
\* sequence are adjacent and share the sequence's label; predictions and the
\* durations of the detections (NaT included, in any order) are free.
TimedeltaValues == {Td(n) : n \in 0..MaxDelta} \cup {[k |-> "nat", v |-> 0]}

TableRow(id, label, prediction, timedelta) ==
    [sequence_id |-> id, image |-> <<id, 0>>, sequence_label |-> label,
     image_label |-> label, prediction |-> prediction,
     confidence |-> IF prediction THEN conf_thresh + 1 ELSE conf_thresh,
     timedelta |-> timedelta]

\* a row without detection carries the earliest duration
RowChoices == {[prediction |-> TRUE, timedelta |-> d] : d \in TimedeltaValues}
              \cup {[prediction |-> FALSE, timedelta |-> Td(0)]}

NextRows(t) ==
    LET last == t[Len(t)]
        same == IF t = <<>> THEN {}
                ELSE {TableRow(last.sequence_id, last.sequence_label,
                               c.prediction, c.timedelta) : c \in RowChoices}
        new == {TableRow((IF t = <<>> THEN 0 ELSE last.sequence_id) + 1, l,
                         c.prediction, c.timedelta) :
                    l \in BOOLEAN, c \in RowChoices}
    IN same \cup new

MetricsInit ==
    /\ predictions_df = <<>>
    /\ dataset = <<>>
    /\ save = FALSE
    /\ resume = FALSE
    /\ needs_deletion = FALSE
    /\ model_file = FALSE
    /\ engine_states = ResetStates
    /\ sequence_results = <<>>
    /\ results_csv = NoCsv
    /\ seq_idx = 1
    /\ pc = "done"
    /\ raised = "none"
    /\ cleanup = "none"
    /\ metrics = <<>>
    /\ loaded = <<>>
    /\ calls = <<>>
    /\ last_run = <<>>
    /\ prev_run = <<>>

\* one more row in the table handed to the metrics
AddRow ==
    /\ pc = "done"
    /\ Len(predictions_df) < MaxRows
    /\ \E r \in NextRows(predictions_df) :
          predictions_df' = Append(predictions_df, r)
    /\ UNCHANGED <<config, resume, model_file, engine_states, sequence_results,
                   results_csv, seq_idx, pc, raised, cleanup, metrics, loaded,
                   calls, last_run, prev_run>>

\* the table so far went through to_csv and read_csv (a resumed run)
ReloadTable ==
    /\ pc = "done"
    /\ predictions_df # <<>>
    /\ predictions_df' = read_csv(to_csv(predictions_df))
    /\ UNCHANGED <<config, resume, model_file, engine_states, sequence_results,
                   results_csv, seq_idx, pc, raised, cleanup, metrics, loaded,
                   calls, last_run, prev_run>>

MetricsNext ==
    \/ AddRow
    \/ ReloadTable
    \/ ComputeMetrics

SpecMetrics == MetricsInit /\ [][MetricsNext]_vars

\* ---- properties ----------------------------------------------------------
RowsOf(rows, sequence_id) ==
    Cardinality({i \in DOMAIN rows : rows[i].sequence_id = sequence_id})

DatasetIds == {dataset[i].sequence_id : i \in DOMAIN dataset}

RECURSIVE ExpectedKeys(_)
\* <<sequence_id, frame>> of every frame, in dataset order then frame order
ExpectedKeys(ds) ==
    IF ds = <<>> THEN <<>>
    ELSE [i \in DOMAIN Head(ds).images |-> <<Head(ds).sequence_id, i>>]
         \o ExpectedKeys(Tail(ds))

RunEnded == pc \in {"done", "evaluated", "failed"}

\* C1: whenever run_engine_sequence starts on a sequence, the engine's alert
\* state is the reset state (empty window, ongoing False), and the first
\* confidence of the sequence is that frame's own score.
C1_ResetAtSequenceStart ==
    /\ (pc = "seq" /\ sequence_results = <<>>) => engine_states = ResetStates
    /\ (pc = "seq" /\ sequence_results # <<>>) =>
          sequence_results[1].confidence = dataset[seq_idx].images[1].score

C4_FailedRunCheckpointed ==
    (pc = "failed" /\ save /\ Len(predictions_df) > Len(loaded)) =>
        /\ results_csv.exists
        /\ \A i \in DOMAIN predictions_df :
              ToCsvRow(predictions_df[i]) \in Range(results_csv.rows)

\* C5: a frame whose load or inference raises never aborts the run.
C5_FrameFailureRecovered == ~(pc = "failed" /\ raised = "frame")

\* C6: with a temporary model file, every exit of the sequence loop attempts
\* the removal; a failed removal never becomes the run's exception, and the
\* run ends as it would have: failed exactly when a frame raised, and
\* otherwise with the final table saved.
C6_CleanupOnEveryExit ==
    (needs_deletion /\ RunEnded) =>
        /\ cleanup \in {"ok", "failed"}
        /\ raised \in {"none", "frame"}
        /\ pc = "failed" <=> raised = "frame"
        /\ (pc # "failed" /\ save) => results_csv = Written(predictions_df)

C6_Witness ==
    /\ needs_deletion /\ cleanup = "failed" /\ model_file
    /\ pc = "done" /\ save /\ results_csv = Written(predictions_df)

\* the ground truth of a sequence in a table, and whether any of its rows
\* is a positive prediction
LabelIn(df, sequence_id) ==
    \E i \in DOMAIN df : df[i].sequence_id = sequence_id /\ df[i].sequence_label

DetectedIn(df, sequence_id) ==
    \E i \in DOMAIN df : df[i].sequence_id = sequence_id /\ df[i].prediction

Occurrences(list, x) == Cardinality({i \in DOMAIN list : list[i] = x})

\* C7: every sequence_id of the table is in exactly one of the tp, fp, fn, tn
\* lists, the one its label and its detections name, and the four counts sum
\* to the number of distinct ids.
C7_BucketsPartition ==
    pc = "evaluated" =>
        LET m == metrics[1].sequence_metrics
            p == m.predictions
            all == p.tp \o p.fn \o p.fp \o p.tn
            ids == SequenceIds(predictions_df)
        IN /\ \A id \in ids : Occurrences(all, id) = 1
           /\ Range(all) \subseteq ids
           /\ \A id \in ids :
                 /\ id \in Range(p.tp) <=>
                       (LabelIn(predictions_df, id) /\ DetectedIn(predictions_df, id))
                 /\ id \in Range(p.fn) <=>
                       (LabelIn(predictions_df, id) /\ ~DetectedIn(predictions_df, id))
                 /\ id \in Range(p.fp) <=>
                       (~LabelIn(predictions_df, id) /\ DetectedIn(predictions_df, id))
                 /\ id \in Range(p.tn) <=>
                       (~LabelIn(predictions_df, id) /\ ~DetectedIn(predictions_df, id))
           /\ m.tp = Len(p.tp) /\ m.fn = Len(p.fn)
           /\ m.fp = Len(p.fp) /\ m.tn = Len(p.tn)
           /\ m.tp + m.fp + m.fn + m.tn = Cardinality(ids)

C7_Witness ==
    /\ pc = "evaluated"
    /\ metrics[1].sequence_metrics.tp = 1
    /\ metrics[1].sequence_metrics.fn = 1
    /\ metrics[1].sequence_metrics.fp = 1

\* the durations of the positive rows of a sequence that are not missing
UsableDelays(df, sequence_id) ==
    {df[i].timedelta.v : i \in {j \in DOMAIN df :
        /\ df[j].sequence_id = sequence_id
        /\ df[j].prediction
        /\ df[j].timedelta.k \in {"td", "str"}}}

MinDelay(df, sequence_id) ==
    CHOOSE m \in UsableDelays(df, sequence_id) :
        \A x \in UsableDelays(df, sequence_id) : m <= x

RECURSIVE SumMinDelays(_, _)
SumMinDelays(df, S) ==
    IF S = {} THEN 0
    ELSE LET id == CHOOSE x \in S : TRUE
         IN MinDelay(df, id) + SumMinDelays(df, S \ {id})

\* C8: avg_detection_delay is the mean, over the true-positive sequences that
\* have a usable delay, of the smallest duration among the sequence's positive
\* rows; false positives do not enter it; it is None when there is no such
\* sequence.
C8_AvgDetectionDelay ==
    pc = "evaluated" =>
        LET tps == {id \in SequenceIds(predictions_df) :
                        /\ LabelIn(predictions_df, id)
                        /\ UsableDelays(predictions_df, id) # {}}
            avg == metrics[1].sequence_metrics.avg_detection_delay
        IN IF tps = {} THEN avg = NoDelay
           ELSE avg = [num |-> SumMinDelays(predictions_df, tps),
                       den |-> Cardinality(tps)]

\* a true positive whose later positive row is the earlier detection, next
\* to a false positive
C8_Witness ==
    /\ pc = "evaluated"
    /\ metrics[1].sequence_metrics.fp = 1
    /\ \E i, j \in DOMAIN predictions_df :
          /\ i < j
          /\ predictions_df[i].sequence_id = predictions_df[j].sequence_id
          /\ predictions_df[i].sequence_label
          /\ predictions_df[i].prediction /\ predictions_df[j].prediction
          /\ predictions_df[i].timedelta.k \in {"td", "str"}
          /\ predictions_df[j].timedelta.k \in {"td", "str"}
          /\ predictions_df[i].timedelta.v > predictions_df[j].timedelta.v

\* the row count went from below a multiple of the interval to it or beyond
Crosses(before, after) ==
    \E m \in 1..(after \div CheckpointInterval) :
        before < m * CheckpointInterval /\ m * CheckpointInterval <= after

\* C9: with save, when the rows of the sequence just appended made the row
\* count cross a multiple of 50, the whole table is in the file.
C9_CheckpointOnCrossing ==
    (/\ save /\ pc = "loop" /\ seq_idx > 1 /\ calls # <<>>
     /\ calls[Len(calls)] = dataset[seq_idx - 1].sequence_id
     /\ Crosses(Len(predictions_df) - Len(dataset[seq_idx - 1].images),
                Len(predictions_df))) =>
        results_csv = Written(predictions_df)

C10_TableInOrder ==
    (loaded = <<>> /\ pc \in {"loop", "seq", "done", "evaluated"}) =>
        /\ IsPrefix(calls, [i \in DOMAIN dataset |-> dataset[i].sequence_id])
        /\ IsPrefix([i \in DOMAIN predictions_df |-> predictions_df[i].image],
                    ExpectedKeys(dataset))
        /\ \A i \in DOMAIN predictions_df :
              LET r == predictions_df[i]
                  sequence == dataset[r.image[1]]
              IN /\ r.sequence_id = sequence.sequence_id
                 /\ r.sequence_label = sequence.label
                 /\ r.timedelta = sequence.images[r.image[2]].timedelta
                 /\ r.prediction = (r.confidence > conf_thresh)
        /\ pc \in {"done", "evaluated"} =>
              /\ Len(calls) = Len(dataset)
              /\ Len(predictions_df) = Len(ExpectedKeys(dataset))

\* C10: in a run started from an empty table the runner is invoked once per
\* sequence in dataset order; every step of the loop leaves the earlier table
\* a prefix of the new one; the table is one row per frame, sequences in
\* dataset order and frames in frame order, each row's prediction being
\* (confidence > conf_thresh); a run that completes ends with all the rows.
C10_OneRowPerFrameInOrder ==
    /\ []C10_TableInOrder
    /\ [][(loaded = <<>> /\ pc \in {"loop", "seq"}) =>
             IsPrefix(predictions_df, predictions_df')]_vars

C10_Witness ==
    /\ loaded = <<>> /\ pc = "done" /\ Len(dataset) >= 2
    /\ \E i, j \in DOMAIN predictions_df :
          /\ predictions_df[i].confidence = conf_thresh
          /\ predictions_df[j].confidence > conf_thresh

====
